---- MODULE Spec2Model ----
(***************************************************************************)
(* Monte Carlo rejection-method integrator of the notebook                 *)
(* 20170414_CalculatingAnIntegralWithMonteCarloUsingTheRejectionMethod.    *)
(*                                                                         *)
(* Reals are modelled on a unit grid: a, b, fmax and the deviates are      *)
(* integers, the integrand is an integer-valued step function, and the     *)
(* reported estimate is held in units of 10^-Digits (the notebook rounds   *)
(* it to Digits decimals).  MCHist and MCHist2 have the same body and      *)
(* differ only in the integrand, which is the parameter `integrand'.       *)
(***************************************************************************)
EXTENDS Integers, Sequences, FiniteSets

\* ---- bounds of the model -------------------------------------------------
MaxN == 3
MaxCoord == 2
MaxFmax == 3
MaxCalls == 2

\* ---- program constants ---------------------------------------------------
\* round(results / num_hist, 6)
Digits == 6

RECURSIVE Pow10(_)
Pow10(d) == IF d = 0 THEN 1 ELSE 10 * Pow10(d - 1)

Scale == Pow10(Digits)

\* ---- inputs the caller may pass -------------------------------------------
SampleCounts == (0 - 1)..MaxN
Coords == 0..MaxCoord
Envelopes == (0 - 1)..MaxFmax
Integrands == {"exp2", "ident", "const1", "const2"}

VARIABLES pc, calls, n_hist, a, b, fmax, integrand, score, tot_score,
          todo, draws, rng, results, integral_val, outcome

vars == <<pc, calls, n_hist, a, b, fmax, integrand, score, tot_score,
          todo, draws, rng, results, integral_val, outcome>>

\* ---- helpers --------------------------------------------------------------
Abs(i) == IF i < 0 THEN 0 - i ELSE i

MinOf(S) == CHOOSE i \in S : \A j \in S : i <= j

RECURSIVE Pow2(_)
Pow2(e) == IF e <= 0 THEN 1 ELSE 2 * Pow2(e - 1)

\* f_x: the integrand evaluated at x.  "exp2" is the integer analogue of
\* np.exp(x**2) (base 2 in place of e); the others are the spec's test
\* integrands f(x) = x and f(x) = c.
F(g, x) ==
    CASE g = "exp2"   -> Pow2(x * x)
      [] g = "ident"  -> x
      [] g = "const1" -> 1
      [] g = "const2" -> 2

\* random.uniform(lo, hi) = lo + (hi - lo) * random(), random() in [0, 1),
\* on the unit grid: the end point hi is not drawn unless lo = hi.
Uniform(lo, hi) ==
    IF lo = hi THEN {lo}
    ELSE IF lo < hi THEN lo..(hi - 1)
    ELSE (hi + 1)..lo

\* range(start, stop)
rangeInclusive(start, stop) == (start - 1)..stop
range(start, stop) == start..(stop - 1)

\* score = (b - a)*fmax
ScoreNoWidth(lo, hi, fm) == fm
Score(lo, hi, fm) == (hi - lo) * fm

\* tot_score = 0
InitTotScoreKept(prev) == prev
InitTotScore(prev) == 0

\* if f < f_x: tot_score += score
AccumulateAlways(tot, sc, f, f_x) == tot + sc
AccumulateNonStrict(tot, sc, f, f_x) == IF f <= f_x THEN tot + sc ELSE tot
Accumulate(tot, sc, f, f_x) == IF f < f_x THEN tot + sc ELSE tot

\* round(p / q, 6) in units of 10^-6, q # 0; ties go to the even neighbour
RoundDiv(num, den) ==
    LET fl == num \div den
        rem == num % den
    IN  IF 2 * rem < den THEN fl
        ELSE IF 2 * rem > den THEN fl + 1
        ELSE IF fl % 2 = 0 THEN fl ELSE fl + 1

RoundTruncated(p, q) ==
    IF q > 0 THEN (p * Scale) \div q ELSE ((0 - p) * Scale) \div (0 - q)
Round6(p, q) ==
    IF q > 0 THEN RoundDiv(p * Scale, q) ELSE RoundDiv((0 - p) * Scale, 0 - q)

\* results / num_hist raises ZeroDivisionError when num_hist = 0
DividesPositive(q) == q > 0
Divides(q) == q # 0

\* ---- the program ----------------------------------------------------------
Init ==
    /\ pc = "idle"
    /\ calls = 0
    /\ n_hist = 1
    /\ a = 0
    /\ b = 1
    /\ fmax = 1
    /\ integrand = "exp2"
    /\ score = 0
    /\ tot_score = 0
    /\ todo = {}
    /\ draws = <<>>
    /\ rng = 0
    /\ results = 0
    /\ integral_val = 0
    /\ outcome = "none"

\* results = MCHist(num_hist, a, b, fmax): entry of the call up to the loop
Call ==
    /\ pc \in {"idle", "done"}
    /\ calls < MaxCalls
    /\ \E nh \in SampleCounts, lo \in Coords, hi \in Coords,
          fm \in Envelopes, g \in Integrands :
          /\ n_hist' = nh
          /\ a' = lo
          /\ b' = hi
          /\ fmax' = fm
          /\ integrand' = g
          /\ score' = Score(lo, hi, fm)
          /\ todo' = range(1, nh)
    /\ tot_score' = InitTotScore(tot_score)
    /\ draws' = <<>>
    /\ calls' = calls + 1
    /\ outcome' = "none"
    /\ pc' = "loop"
    /\ UNCHANGED <<rng, results, integral_val>>

\* one iteration of the for loop
Trial ==
    /\ pc = "loop"
    /\ todo # {}
    /\ \E x \in Uniform(a, b), f \in Uniform(0, fmax) :
          /\ tot_score' = Accumulate(tot_score, score, f, F(integrand, x))
          /\ draws' = Append(draws, <<x, f>>)
    /\ todo' = todo \ {MinOf(todo)}
    /\ rng' = rng + 2
    /\ UNCHANGED <<pc, calls, n_hist, a, b, fmax, integrand, score,
                   results, integral_val, outcome>>

\* return tot_score; integral_val = round(results / num_hist, 6)
Return ==
    /\ pc = "loop"
    /\ todo = {}
    /\ results' = tot_score
    /\ IF Divides(n_hist)
         THEN /\ integral_val' = Round6(tot_score, n_hist)
              /\ outcome' = "ok"
         ELSE /\ integral_val' = integral_val
              /\ outcome' = "ZeroDivisionError"
    /\ pc' = "done"
    /\ UNCHANGED <<calls, n_hist, a, b, fmax, integrand, score, tot_score,
                   todo, draws, rng>>

Next == Call \/ Trial \/ Return

Spec == Init /\ [][Next]_vars

TypeOK ==
    /\ pc \in {"idle", "loop", "done"}
    /\ calls \in 0..MaxCalls
    /\ outcome \in {"none", "ok", "ZeroDivisionError"}

\* ---- vocabulary of the claims ----------------------------------------------
\* number of trials of the current call whose pair satisfies y < f(x)
Hits(d) ==
    Cardinality({i \in 1..Len(d) : d[i][2] < F(integrand, d[i][1])})

ValidInput == a < b /\ fmax > 0 /\ n_hist > 0

BoxArea == (b - a) * fmax

\* v is p / q rounded to the nearest multiple of 10^-Digits
Nearest(v, p, q) == 2 * Abs(v * q - p * Scale) <= Abs(q)

RECURSIVE SumFn(_, _)
SumFn(fn, S) ==
    IF S = {} THEN 0
    ELSE LET e == CHOOSE e \in S : TRUE
         IN  fn[e] + SumFn(fn, S \ {e})

RECURSIVE Power(_, _)
Power(base, e) == IF e = 0 THEN 1 ELSE base * Power(base, e - 1)

Pairs == Uniform(a, b) \X Uniform(0, fmax)

NumTrials == Cardinality(range(1, n_hist))

\* sum, over all equally likely sequences of k further pairs, of the score
\* the loop returns when it starts from tot
RECURSIVE TotalOverDraws(_, _)
TotalOverDraws(k, tot) ==
    IF k = 0 THEN tot
    ELSE SumFn([p \in Pairs |->
                  TotalOverDraws(k - 1,
                      Accumulate(tot, score, p[2], F(integrand, p[1])))],
               Pairs)

NumSequences == Power(Cardinality(Pairs), NumTrials)

Cells == a..(b - 1)

GridSum == SumFn([x \in Cells |-> F(integrand, x)], Cells)

Min2(i, j) == IF i < j THEN i ELSE j

TruncatedGridSum == SumFn([x \in Cells |-> Min2(F(integrand, x), fmax)], Cells)

IsConstant == integrand \in {"const1", "const2"}

Failures == {"InvalidInterval", "InvalidEnvelope", "InvalidSampleCount"}

\* ---- claims ----------------------------------------------------------------

\* C1: a run with a positive sample count n performs exactly n trials before
\* it returns, the same n by which the score is divided.
C1_ExactlyNTrials ==
    (pc = "done" /\ n_hist > 0) => Len(draws) = n_hist

\* C2 (as stated): for valid input the reported estimate equals
\* (hits / n) * (b - a) * fmax exactly, hits counting the trials with y < f(x).
C2_EstimateExact ==
    (pc = "done" /\ ValidInput) =>
        integral_val * n_hist = Hits(draws) * BoxArea * Scale

\* C2 (amended): for valid input the returned score is hits * (b - a) * fmax
\* and the reported estimate is that score divided by n, rounded to the
\* nearest multiple of 10^-6.
C2_EstimateRounded ==
    (pc = "done" /\ ValidInput) =>
        /\ results = Hits(draws) * BoxArea
        /\ outcome = "ok"
        /\ Nearest(integral_val, Hits(draws) * BoxArea, n_hist)

C2_Witness ==
    /\ pc = "done" /\ ValidInput /\ n_hist = 3
    /\ Hits(draws) = 1 /\ Len(draws) = 2
    /\ integral_val * n_hist # Hits(draws) * BoxArea * Scale

\* C3: for a constant integrand c > 0 with fmax = c every trial is a hit and
\* the reported estimate equals (b - a) * c.
C3_ConstantExact ==
    (pc = "done" /\ a < b /\ n_hist > 0 /\ IsConstant
       /\ fmax = F(integrand, a)) =>
        /\ Hits(draws) = Len(draws)
        /\ integral_val = (b - a) * fmax * Scale

\* C4 (as stated): a call with n <= 0 (the other arguments valid) fails with
\* InvalidSampleCount and returns no numeric estimate.
C4_InvalidSampleCount ==
    (pc = "done" /\ n_hist <= 0 /\ a < b /\ fmax > 0) =>
        outcome = "InvalidSampleCount"

\* C4 (amended): a call with n <= 0 performs no trial and returns the score 0;
\* the division by n then raises ZeroDivisionError for n = 0 and reports the
\* estimate 0 for n < 0.
C4_NonPositiveCount ==
    (pc = "done" /\ n_hist <= 0) =>
        /\ draws = <<>>
        /\ results = 0
        /\ (n_hist = 0 => outcome = "ZeroDivisionError")
        /\ (n_hist < 0 => outcome = "ok" /\ integral_val = 0)

C4_Witness ==
    /\ pc = "done" /\ n_hist < 0 /\ outcome = "ok" /\ integral_val = 0
    /\ a < b /\ fmax > 0 /\ calls = 2

C8_Unbiased ==
    (pc = "done" /\ ValidInput
       /\ \A x \in Cells : 0 <= F(integrand, x) /\ F(integrand, x) <= fmax) =>
        TotalOverDraws(NumTrials, 0) = n_hist * NumSequences * GridSum

\* C9: when fmax < f(x) for some x, every trial drawing such an x is a hit, no
\* error is raised, and the mean of the estimate equals the grid sum of
\* min(f(x), fmax), strictly below the grid sum of f.
C9_TruncatedMean ==
    (pc = "done" /\ ValidInput
       /\ (\A x \in Cells : 0 <= F(integrand, x))
       /\ (\E x \in Cells : fmax < F(integrand, x))) =>
        /\ \A i \in 1..Len(draws) :
               fmax < F(integrand, draws[i][1]) =>
                   draws[i][2] < F(integrand, draws[i][1])
        /\ outcome = "ok"
        /\ TotalOverDraws(NumTrials, 0)
               = n_hist * NumSequences * TruncatedGridSum
        /\ TotalOverDraws(NumTrials, 0) < n_hist * NumSequences * GridSum

\* C10 (as stated): a call reads and writes no state that outlives it: the
\* global random generator is left as the call found it.
C10_NoStateOutlivesCall == [][pc = "loop" => rng' = rng]_vars

\* C10 (amended): the accumulator is scoped to the call and starts at 0, so
\* the score a call returns is determined by its own arguments and the
\* deviates drawn during it, whatever calls came before; the global random
\* generator is the one state that outlives the call, advanced by two
\* deviates per trial.
C10_ResultFromOwnDeviates ==
    /\ (pc = "done" => results = Hits(draws) * BoxArea)
    /\ (pc = "loop" /\ draws = <<>> => tot_score = 0)
    /\ (calls <= 1 => rng = 2 * Len(draws))
    /\ rng >= 2 * Len(draws)

C10_Witness ==
    /\ pc = "done" /\ calls = 2 /\ results # 0
    /\ Len(draws) >= 1 /\ Hits(draws) < Len(draws)
    /\ rng > 2 * Len(draws)

\* C11: for valid input, in every state of the sampling loop the accumulated
\* score equals h * (b - a) * fmax with h the hits among the k trials done so
\* far and 0 <= h <= k <= n; the accumulator never decreases during the loop;
\* and the final estimate lies in the closed range [0, (b - a) * fmax].
C11_LoopState ==
    (pc = "loop" /\ ValidInput) =>
        /\ tot_score = Hits(draws) * BoxArea
        /\ 0 <= Hits(draws)
        /\ Hits(draws) <= Len(draws)
        /\ Len(draws) <= n_hist

C11_FinalRange ==
    (pc = "done" /\ ValidInput) =>
        /\ outcome = "ok"
        /\ 0 <= integral_val
        /\ integral_val <= BoxArea * Scale

C11_NoDecrease ==
    (pc = "loop" /\ pc' = "loop" /\ ValidInput) => tot_score' >= tot_score

C11_AccumulatorInvariant ==
    /\ [](C11_LoopState /\ C11_FinalRange)
    /\ [][C11_NoDecrease]_vars

C11_Witness ==
    /\ pc = "loop" /\ ValidInput
    /\ Len(draws) = 2 /\ Hits(draws) = 1
    /\ tot_score = BoxArea /\ tot_score > 0
====
